---- MODULE Spec2Model ----
(***************************************************************************)
(* Model of pkg/vault/client.go of bedag/vault-secret-broker: the Vault    *)
(* client with its background login/renewal goroutine, the startup gate of *)
(* NewClientFromRawClient, Client.Close, the CA certificate watcher of     *)
(* NewClientFromConfig, and the AppRole authenticator (Login, SetSecretID, *)
(* Persist, NewApproleWithOptions).                                        *)
(*                                                                         *)
(* Secrets and tokens are numbered: secret 0 is the initial SecretID, the  *)
(* n-th secret-id response of the server is secret n, the n-th login       *)
(* request gets token n.  Token 0 stands for a nil *Secret, -1 for the     *)
(* empty string (an unset field, an empty or truncated file) and -2, as a  *)
(* file's content, for a file that cannot be read.                         *)
(***************************************************************************)
EXTENDS Integers, Sequences, FiniteSets, TLC

\* ---------------------------------------------------------------- bounds
\* login requests the background goroutine may send
MaxLogins == 2
\* options passed to NewApproleWithOptions
MaxOpts == 2

VARIABLES
    loop,                 \* position of the background goroutine (client.go 176-224)
    ctor,                 \* position of the constructing thread
    mu,                   \* client.mu: "free" or its holder
    closed,               \* client.closed
    tokenRenewer,         \* client.tokenRenewer: 0 = nil, else index into renewers
    watch,                \* client.watch: "nil", "open", "unwatched", "closed"
    renewers,             \* the vaultapi.Renewer objects created so far
    initialTokenArrived,  \* the buffered channel (capacity 1)
    initialTokenSent,     \* the goroutine's flag
    approle,              \* the Approle struct
    storeFile,            \* content of the file at secretIDStorePath
    rawToken,             \* the token set on rawClient
    call,                 \* the current (or last) Approle.Login invocation
    twin,                 \* the same invocation run with the other store-write outcome
    server,               \* requests seen by the Vault server
    closer,               \* the owner's Close() calls
    watcher,              \* the watcher goroutine (client.go 111-137) and its last event
    env,                  \* the environment: VAULT_CACERT and VAULT_CACERT_RELOAD
    okLogins,             \* Logins that returned a secret and a nil error
    lastWrite,            \* outcome of the last ioutil.WriteFile of Persist
    boot                  \* a NewApproleWithOptions call: its inputs and its result

vars == <<loop, ctor, mu, closed, tokenRenewer, watch, renewers, initialTokenArrived,
          initialTokenSent, approle, storeFile, rawToken, call, twin, server, closer,
          watcher, env, okLogins, lastWrite, boot>>

\* ------------------------------------------------------- Approle (pure part)

\* Outcomes of ioutil.WriteFile: written, failed before the file was touched,
\* failed after the file was truncated.
WriteResults == {"ok", "fail_open", "fail_write"}

\* Persist without line 522: the file is written, the flag is not set.
Persist_FlagNotSet(a, f, w) ==
    [approle |-> a,
     storeFile |-> IF w = "ok" THEN a.secretID ELSE IF w = "fail_write" THEN -1 ELSE f]

\* Persist (client.go 516-523) on the pair <approle, store file>.
Persist(a, f, w) ==
    IF w = "ok"
    THEN [approle |-> [a EXCEPT !.persisted = TRUE], storeFile |-> a.secretID]
    ELSE [approle |-> a, storeFile |-> IF w = "fail_write" THEN -1 ELSE f]

\* SetSecretID keeping the old SecretID in memory when the write fails.
SetSecretID_KeepOnFailure(a, f, secretID, w) ==
    IF w = "ok"
    THEN Persist([a EXCEPT !.persisted = FALSE, !.secretID = secretID], f, w)
    ELSE Persist([a EXCEPT !.persisted = FALSE], f, w)

\* SetSecretID writing the new SecretID to the store only, the old one
\* staying current in memory.
SetSecretID_StoreOnly(a, f, secretID, w) ==
    [approle |-> [a EXCEPT !.persisted = (w = "ok")],
     storeFile |-> IF w = "ok" THEN secretID ELSE IF w = "fail_write" THEN -1 ELSE f]

\* SetSecretID without the reset of persisted at line 507.
SetSecretID_NoReset(a, f, secretID, w) ==
    Persist([a EXCEPT !.secretID = secretID], f, w)

\* SetSecretID (client.go 506-510).
SetSecretID(a, f, secretID, w) ==
    Persist([a EXCEPT !.persisted = FALSE, !.secretID = secretID], f, w)

\* The frame of one Login invocation: what it was entered with, the requests
\* it has sent and what it returned.
NewCall(a, f, tok) ==
    [ entrySecret  |-> a.secretID,     \* approle.secretID when Login was entered
      entryPersisted |-> a.persisted,
      entryFile    |-> f,
      entryToken   |-> tok,            \* rawClient's token when Login was entered
      loginCalls   |-> 0,              \* login requests sent
      loginArg     |-> -1,             \* secret_id of the login request
      tokenSecret  |-> 0,              \* the login response (0 = none)
      issueCalls   |-> 0,              \* secret-id requests sent
      issueResp    |-> "none",
      newSecret    |-> -1,             \* the secret_id of the secret-id response
      oldSecretID  |-> -1,             \* the local oldSecretID
      destroyCalls |-> 0,              \* destroy requests sent
      destroyArg   |-> -1,             \* secret_id of the destroy request
      destroyResp  |-> "none",
      returned     |-> FALSE,
      ret          |-> 0,              \* the returned *Secret (its token; 0 = nil)
      err          |-> FALSE,          \* the returned error is non-nil
      panicked     |-> FALSE ]

\* LoginRequest sending the login request a second time when it failed.
LoginRequest_Retry(s, resp, tok) ==
    LET c == [s.call EXCEPT !.loginCalls = @ + 1, !.loginArg = s.approle.secretID] IN
    CASE resp = "err" ->
           [s EXCEPT !.call = [c EXCEPT !.loginCalls = @ + 1, !.returned = TRUE,
                                        !.ret = 0, !.err = TRUE]]
      [] resp = "nil" ->
           [s EXCEPT !.call = [c EXCEPT !.panicked = TRUE]]
      [] OTHER ->
           [s EXCEPT !.approle.token = tok, !.rawToken = tok,
                     !.call = [c EXCEPT !.tokenSecret = tok]]

\* Line 474-483: the login request and what follows it up to the next request.
\* s is [approle, storeFile, rawToken, call]; resp is the server's answer.
LoginRequest(s, resp, tok) ==
    LET c == [s.call EXCEPT !.loginCalls = @ + 1, !.loginArg = s.approle.secretID] IN
    CASE resp = "err" ->
           [s EXCEPT !.call = [c EXCEPT !.returned = TRUE, !.ret = 0, !.err = TRUE]]
      [] resp = "nil" ->   \* tokenSecret.Auth on a nil *Secret
           [s EXCEPT !.call = [c EXCEPT !.panicked = TRUE]]
      [] OTHER ->
           [s EXCEPT !.approle.token = tok, !.rawToken = tok,
                     !.call = [c EXCEPT !.tokenSecret = tok]]

\* DestroyPayload reading the SecretID after SetSecretID has replaced it.
DestroyPayload_Current(c, a) == a.secretID

\* The secret_id sent to the destroy endpoint (client.go 492, 496).
DestroyPayload(c, a) == c.oldSecretID

\* IssueFailedReturn dropping the token secret, as the login failure does.
IssueFailedReturn_Nil(c) == [c EXCEPT !.returned = TRUE, !.ret = 0, !.err = TRUE]

\* What Login returns when the secret-id request failed (client.go 489-491).
IssueFailedReturn(c) == [c EXCEPT !.returned = TRUE, !.ret = c.tokenSecret, !.err = TRUE]

\* Line 486-493: the secret-id request, SetSecretID with write outcome w.
IssueRequest(s, resp, new, w) ==
    LET c == [s.call EXCEPT !.issueCalls = @ + 1, !.issueResp = resp] IN
    CASE resp = "err" -> [s EXCEPT !.call = IssueFailedReturn(c)]
      [] resp = "nil" ->   \* secretIDSecret.Data on a nil *Secret
           [s EXCEPT !.call = [c EXCEPT !.panicked = TRUE]]
      [] OTHER ->
           LET p == SetSecretID(s.approle, s.storeFile, new, w) IN
           [s EXCEPT !.approle = p.approle, !.storeFile = p.storeFile,
                     !.call = [c EXCEPT !.newSecret = new,
                                        !.oldSecretID = s.approle.secretID]]

\* What Login returns after the destroy request (client.go 497-502).
DestroyReturn(c, resp) ==
    [c EXCEPT !.returned = TRUE, !.ret = c.tokenSecret, !.err = (resp = "err")]

\* Line 496-502: the destroy request and the return.
DestroyRequest(s, resp) ==
    LET c == [s.call EXCEPT !.destroyCalls = @ + 1,
                            !.destroyArg = DestroyPayload(s.call, s.approle),
                            !.destroyResp = resp] IN
    [s EXCEPT !.call = DestroyReturn(c, resp)]

\* The other store-write outcome, for the twin run of a Login.
OtherWrite(w) == IF w = "ok" THEN "fail_open" ELSE "ok"

\* ------------------------------------------------------------ initial state

\* Values of VAULT_CACERT: unset, or the path of the CA file.
CACertValues == {"", "/etc/tls/ca.crt"}

\* Values of VAULT_CACERT_RELOAD: unset, or "false".
ReloadValues == {"", "false"}

\* Line 97: os.Getenv(vaultapi.EnvVaultCACert).
caCertPath == env.cacert

\* caCertReload taking an unset VAULT_CACERT_RELOAD for a disabled reload.
caCertReload_SetOnly == env.reload \notin {"", "false"}

\* Line 98: os.Getenv("VAULT_CACERT_RELOAD") != "false".
caCertReload == env.reload # "false"

\* No NewApproleWithOptions call is being followed.
NoBoot == [pc |-> "none"]

\* The Approle as NewApproleWithOptions leaves it (client.go 460-461): the
\* initial SecretID 0 was set with SetSecretID, whose write may have failed.
Init ==
    /\ loop = "lock"
    /\ ctor = "gate"
    /\ mu = "free"
    /\ closed = FALSE
    /\ tokenRenewer = 0
    /\ watch = "nil"
    /\ renewers = << >>
    /\ initialTokenArrived = << >>
    /\ initialTokenSent = FALSE
    /\ \E w \in WriteResults, f0 \in {-2, 0} :
         LET p == SetSecretID([secretID |-> -1, token |-> 0, persisted |-> FALSE], f0, 0, w) IN
         /\ approle = p.approle
         /\ storeFile = p.storeFile
         /\ call = NewCall(p.approle, p.storeFile, 0)
         /\ twin = [approle |-> p.approle, storeFile |-> p.storeFile, rawToken |-> 0,
                    call |-> NewCall(p.approle, p.storeFile, 0)]
         /\ lastWrite = w
    /\ rawToken = 0
    /\ server = [logins |-> 0, issued |-> 0, destroySent |-> {}, destroyed |-> {}]
    /\ closer = [pc |-> "idle", returned |-> FALSE]
    /\ watcher = [pc |-> "none", name |-> "", op |-> {}]
    /\ env \in [cacert : CACertValues, reload : ReloadValues]
    /\ okLogins = 0
    /\ boot = NoBoot

\* A panic in any goroutine ends the process.
Alive == loop # "panic"

\* The Login state as one record, for the operators above.
Cur == [approle |-> approle, storeFile |-> storeFile, rawToken |-> rawToken, call |-> call]

SetCur(s) ==
    /\ approle' = s.approle
    /\ storeFile' = s.storeFile
    /\ rawToken' = s.rawToken
    /\ call' = s.call

\* ------------------------------------------------- the background goroutine

\* AfterLogin with the error of Login ignored when a secret came back.
AfterLogin_SecretOnly(c) ==
    IF c.ret = 0 THEN "backoff" ELSE "gate_send"

\* AfterLogin with a login error ending the goroutine.
AfterLogin_ExitOnError(c) ==
    IF c.err THEN "exited"
    ELSE IF c.ret = 0 THEN "backoff"
    ELSE "gate_send"

\* Lines 189-199: where the loop goes with what Login returned.
AfterLogin(c) ==
    IF c.err THEN "backoff"
    ELSE IF c.ret = 0 THEN "backoff"
    ELSE "gate_send"

\* Lines 178-182: the goroutine takes the lock, finds closed set and leaves.
LoopExit ==
    /\ Alive /\ loop = "lock" /\ mu = "free"
    /\ closed
    /\ loop' = "exited"
    /\ UNCHANGED <<ctor, mu, closed, tokenRenewer, watch, renewers, initialTokenArrived,
                   initialTokenSent, approle, storeFile, rawToken, call, twin, server,
                   closer, watcher, env, okLogins, lastWrite, boot>>

\* LoginEnter without the test of closed at line 179.
LoginEnter_Unchecked ==
    /\ Alive /\ loop = "lock" /\ mu = "free"
    /\ server.logins < MaxLogins
    /\ mu' = "loop"
    /\ loop' = "login"
    /\ call' = NewCall(approle, storeFile, rawToken)
    /\ twin' = [Cur EXCEPT !.call = NewCall(approle, storeFile, rawToken)]
    /\ UNCHANGED <<ctor, closed, tokenRenewer, watch, renewers, initialTokenArrived,
                   initialTokenSent, approle, storeFile, rawToken, server, closer,
                   watcher, env, okLogins, lastWrite, boot>>

\* LoginEnter releasing the lock before Login is called.
LoginEnter_Unlocked ==
    /\ Alive /\ loop = "lock" /\ mu = "free"
    /\ ~closed
    /\ server.logins < MaxLogins
    /\ mu' = "free"
    /\ loop' = "login"
    /\ call' = NewCall(approle, storeFile, rawToken)
    /\ twin' = [Cur EXCEPT !.call = NewCall(approle, storeFile, rawToken)]
    /\ UNCHANGED <<ctor, closed, tokenRenewer, watch, renewers, initialTokenArrived,
                   initialTokenSent, approle, storeFile, rawToken, server, closer,
                   watcher, env, okLogins, lastWrite, boot>>

\* Lines 178-186, 470: the goroutine takes the lock, finds closed unset and
\* enters Login; the lock stays held until Login returns (line 187).
LoginEnter ==
    /\ Alive /\ loop = "lock" /\ mu = "free"
    /\ ~closed
    /\ server.logins < MaxLogins
    /\ mu' = "loop"
    /\ loop' = "login"
    /\ call' = NewCall(approle, storeFile, rawToken)
    /\ twin' = [Cur EXCEPT !.call = NewCall(approle, storeFile, rawToken)]
    /\ UNCHANGED <<ctor, closed, tokenRenewer, watch, renewers, initialTokenArrived,
                   initialTokenSent, approle, storeFile, rawToken, server, closer,
                   watcher, env, okLogins, lastWrite, boot>>

\* Where the goroutine is after a step of Login, and who holds the lock.
LoginStepDone(c, next) ==
    /\ loop' = IF c.panicked THEN "panic" ELSE IF c.returned THEN AfterLogin(c) ELSE next
    /\ mu' = IF c.returned THEN "free" ELSE "loop"
    /\ okLogins' = IF c.returned /\ ~c.err /\ c.ret # 0 THEN okLogins + 1 ELSE okLogins

\* Line 474-483: the login request.
LoginSend ==
    /\ Alive /\ loop = "login"
    /\ \E resp \in {"err", "nil", "ok"} :
         LET tok == server.logins + 1
             s == LoginRequest(Cur, resp, tok) IN
         /\ SetCur(s)
         /\ twin' = LoginRequest(twin, resp, tok)
         /\ LoginStepDone(s.call, "issue")
    /\ server' = [server EXCEPT !.logins = @ + 1]
    /\ UNCHANGED <<ctor, closed, tokenRenewer, watch, renewers, initialTokenArrived,
                   initialTokenSent, closer, watcher, env, lastWrite, boot>>

\* Line 486-493: the secret-id request and SetSecretID.
IssueSend ==
    /\ Alive /\ loop = "issue"
    /\ \E resp \in {"err", "nil", "ok"}, w \in WriteResults :
         LET new == server.issued + 1
             s == IssueRequest(Cur, resp, new, w) IN
         /\ SetCur(s)
         /\ twin' = IssueRequest(twin, resp, new, OtherWrite(w))
         /\ LoginStepDone(s.call, "destroy")
         /\ server' = IF resp = "ok" THEN [server EXCEPT !.issued = new] ELSE server
         /\ lastWrite' = IF resp = "ok" THEN w ELSE lastWrite
    /\ UNCHANGED <<ctor, closed, tokenRenewer, watch, renewers, initialTokenArrived,
                   initialTokenSent, closer, watcher, env, boot>>

\* Line 496-502 and 187: the destroy request, the return and the unlock.
DestroySend ==
    /\ Alive /\ loop = "destroy"
    /\ \E resp \in {"err", "ok"} :
         LET s == DestroyRequest(Cur, resp) IN
         /\ SetCur(s)
         /\ twin' = DestroyRequest(twin, resp)
         /\ LoginStepDone(s.call, "destroy")
         /\ server' = [server EXCEPT
                         !.destroySent = @ \cup {s.call.destroyArg},
                         !.destroyed = IF resp = "ok" THEN @ \cup {s.call.destroyArg} ELSE @]
    /\ UNCHANGED <<ctor, closed, tokenRenewer, watch, renewers, initialTokenArrived,
                   initialTokenSent, closer, watcher, env, lastWrite, boot>>

\* Lines 191-192 and 197-198: the one-second sleep, then the next iteration.
Backoff ==
    /\ Alive /\ loop = "backoff"
    /\ loop' = "lock"
    /\ UNCHANGED <<ctor, mu, closed, tokenRenewer, watch, renewers, initialTokenArrived,
                   initialTokenSent, approle, storeFile, rawToken, call, twin, server,
                   closer, watcher, env, okLogins, lastWrite, boot>>

\* GateSend without the initialTokenSent flag: every successful login sends.
GateSend_Always ==
    /\ Alive /\ loop = "gate_send"
    /\ Len(initialTokenArrived) < 1
    /\ initialTokenArrived' = Append(initialTokenArrived, call.ret)
    /\ initialTokenSent' = TRUE
    /\ loop' = "new_renewer"
    /\ UNCHANGED <<ctor, mu, closed, tokenRenewer, watch, renewers, approle, storeFile,
                   rawToken, call, twin, server, closer, watcher, env, okLogins, lastWrite, boot>>

\* Lines 203-206: the first token is sent to the constructor; the send blocks
\* while the channel's buffer is full.
GateSend ==
    /\ Alive /\ loop = "gate_send"
    /\ IF initialTokenSent
       THEN UNCHANGED <<initialTokenArrived, initialTokenSent>>
       ELSE /\ Len(initialTokenArrived) < 1
            /\ initialTokenArrived' = Append(initialTokenArrived, call.ret)
            /\ initialTokenSent' = TRUE
    /\ loop' = "new_renewer"
    /\ UNCHANGED <<ctor, mu, closed, tokenRenewer, watch, renewers, approle, storeFile,
                   rawToken, call, twin, server, closer, watcher, env, okLogins, lastWrite, boot>>

\* Lines 209-213: rawClient.NewRenewer; on an error the loop continues.
NewRenewer ==
    /\ Alive /\ loop = "new_renewer"
    /\ \E ok \in BOOLEAN :
         IF ok
         THEN /\ renewers' = Append(renewers, [phase |-> "created", stopped |-> FALSE,
                                               doneErr |-> FALSE, renewed |-> FALSE,
                                               token |-> call.ret])
              /\ loop' = "register"
         ELSE /\ loop' = "lock"
              /\ UNCHANGED renewers
    /\ UNCHANGED <<ctor, mu, closed, tokenRenewer, watch, initialTokenArrived,
                   initialTokenSent, approle, storeFile, rawToken, call, twin, server,
                   closer, watcher, env, okLogins, lastWrite, boot>>

\* Lines 215-217: the renewer is registered on the client under the lock.
Register ==
    /\ Alive /\ loop = "register" /\ mu = "free"
    /\ tokenRenewer' = Len(renewers)
    /\ loop' = "start"
    /\ UNCHANGED <<ctor, mu, closed, watch, renewers, initialTokenArrived,
                   initialTokenSent, approle, storeFile, rawToken, call, twin, server,
                   closer, watcher, env, okLogins, lastWrite, boot>>

\* Line 219: go tokenRenewer.Renew().
StartRenew ==
    /\ Alive /\ loop = "start"
    /\ renewers' = [renewers EXCEPT ![Len(renewers)].phase = "running"]
    /\ loop' = "renew_check"
    /\ UNCHANGED <<ctor, mu, closed, tokenRenewer, watch, initialTokenArrived,
                   initialTokenSent, approle, storeFile, rawToken, call, twin, server,
                   closer, watcher, env, okLogins, lastWrite, boot>>

\* Lines 246-247: the running renewer reports a renewal, runRenewChecker logs
\* it and keeps waiting; renewed records that at least one was logged.
RenewCheckerRenewed ==
    /\ Alive /\ loop = "renew_check"
    /\ renewers[Len(renewers)].phase = "running"
    /\ renewers' = [renewers EXCEPT ![Len(renewers)].renewed = TRUE]
    /\ UNCHANGED <<loop, ctor, mu, closed, tokenRenewer, watch, initialTokenArrived,
                   initialTokenSent, approle, storeFile, rawToken, call, twin, server,
                   closer, watcher, env, okLogins, lastWrite, boot>>

\* Renewer.Renew ends and puts its result on DoneCh: nil after Stop, nil or an
\* error when the token can no longer be renewed.
RenewerDone ==
    /\ Alive
    /\ \E i \in 1..Len(renewers), e \in BOOLEAN :
         /\ renewers[i].phase = "running"
         /\ renewers[i].stopped => ~e
         /\ renewers' = [renewers EXCEPT ![i].phase = "done", ![i].doneErr = e]
    /\ UNCHANGED <<loop, ctor, mu, closed, tokenRenewer, watch, initialTokenArrived,
                   initialTokenSent, approle, storeFile, rawToken, call, twin, server,
                   closer, watcher, env, okLogins, lastWrite, boot>>

\* runRenewChecker returning on a renewed notification as it does on DoneCh.
RenewCheckerDone_OnRenewed ==
    /\ Alive /\ loop = "renew_check"
    /\ renewers[Len(renewers)].phase \in {"running", "done"}
    /\ renewers' = [renewers EXCEPT
                      ![Len(renewers)].phase = IF @ = "done" THEN "finished" ELSE @,
                      ![Len(renewers)].doneErr = FALSE,
                      ![Len(renewers)].renewed = FALSE]
    /\ loop' = "lock"
    /\ UNCHANGED <<ctor, mu, closed, tokenRenewer, watch, initialTokenArrived,
                   initialTokenSent, approle, storeFile, rawToken, call, twin, server,
                   closer, watcher, env, okLogins, lastWrite, boot>>

\* Lines 241-245 and 221-222: runRenewChecker receives from DoneCh and
\* returns; the loop starts its next iteration.
RenewCheckerDone ==
    /\ Alive /\ loop = "renew_check"
    /\ renewers[Len(renewers)].phase = "done"
    /\ renewers' = [renewers EXCEPT ![Len(renewers)].phase = "finished",
                                    ![Len(renewers)].doneErr = FALSE,
                                    ![Len(renewers)].renewed = FALSE]
    /\ loop' = "lock"
    /\ UNCHANGED <<ctor, mu, closed, tokenRenewer, watch, initialTokenArrived,
                   initialTokenSent, approle, storeFile, rawToken, call, twin, server,
                   closer, watcher, env, okLogins, lastWrite, boot>>

\* ------------------------------------------------------------ Client.Close

\* Close without client.mu.Lock() at line 259.
Close_NoLock ==
    /\ closed' = IF tokenRenewer # 0 THEN TRUE ELSE closed
    /\ renewers' = IF tokenRenewer # 0
                   THEN [renewers EXCEPT ![tokenRenewer].stopped = TRUE]
                   ELSE renewers
    /\ watch' = IF watch # "nil" THEN "closed" ELSE watch

\* Lines 259-270, run under client.mu: closed is set and the registered
\* renewer stopped only when a renewer is registered; the watcher is closed
\* when there is one.
Close ==
    /\ mu = "free"
    /\ closed' = IF tokenRenewer # 0 THEN TRUE ELSE closed
    /\ renewers' = IF tokenRenewer # 0
                   THEN [renewers EXCEPT ![tokenRenewer].stopped = TRUE]
                   ELSE renewers
    /\ watch' = IF watch # "nil" THEN "closed" ELSE watch

\* ------------------------------------------------- the constructing thread

\* Lines 226-228: the first token arrives; NewClientFromRawClient returns
\* the client (line 235).
GateReceive ==
    /\ Alive /\ ctor = "gate"
    /\ Len(initialTokenArrived) > 0
    /\ initialTokenArrived' = Tail(initialTokenArrived)
    /\ ctor' = "ret_client"
    /\ UNCHANGED <<loop, mu, closed, tokenRenewer, watch, renewers, initialTokenSent,
                   approle, storeFile, rawToken, call, twin, server, closer, watcher,
                   env, okLogins, lastWrite, boot>>

\* Line 230: the timer of initialTokenTimeout fires.
GateTimeout ==
    /\ Alive /\ ctor = "gate"
    /\ ctor' = "timeout"
    /\ UNCHANGED <<loop, mu, closed, tokenRenewer, watch, renewers, initialTokenArrived,
                   initialTokenSent, approle, storeFile, rawToken, call, twin, server,
                   closer, watcher, env, okLogins, lastWrite, boot>>

\* Lines 231-232: client.Close(), then return nil and the timeout error.
TimeoutClose ==
    /\ Alive /\ ctor = "timeout"
    /\ Close
    /\ ctor' = "ret_timeout"
    /\ UNCHANGED <<loop, mu, tokenRenewer, initialTokenArrived, initialTokenSent,
                   approle, storeFile, rawToken, call, twin, server, closer, watcher,
                   env, okLogins, lastWrite, boot>>

\* Lines 97-142 of NewClientFromConfig, after NewClientFromRawClient returned
\* a client: without a CA file to watch the client is returned as it is.
ConfigNoWatch ==
    /\ Alive /\ ctor = "ret_client"
    /\ ~(caCertPath # "" /\ caCertReload)
    /\ ctor' = "ready"
    /\ UNCHANGED <<loop, mu, closed, tokenRenewer, watch, renewers, initialTokenArrived,
                   initialTokenSent, approle, storeFile, rawToken, call, twin, server,
                   closer, watcher, env, okLogins, lastWrite, boot>>

\* Lines 100-142: fsnotify.NewWatcher fails (103), or the watcher goroutine
\* is started (111) and the watcher stored on the client (139); the result of
\* watch.Add is dropped (109), and a watcher whose Add failed ("unwatched")
\* receives nothing.
ConfigWatch ==
    /\ Alive /\ ctor = "ret_client"
    /\ caCertPath # "" /\ caCertReload
    /\ \E r \in {"ok", "new_failed", "add_failed"} :
         IF r = "new_failed"
         THEN /\ ctor' = "ret_watch_err"
              /\ UNCHANGED <<watch, watcher>>
         ELSE /\ watch' = IF r = "ok" THEN "open" ELSE "unwatched"
              /\ watcher' = [watcher EXCEPT !.pc = "lock"]
              /\ ctor' = "ready"
    /\ UNCHANGED <<loop, mu, closed, tokenRenewer, renewers, initialTokenArrived,
                   initialTokenSent, approle, storeFile, rawToken, call, twin, server,
                   closer, env, okLogins, lastWrite, boot>>

\* ------------------------------------------------- the owner of the client

\* The owner of a returned client calls Close(); the call waits for client.mu.
CloseCall ==
    /\ Alive /\ ctor = "ready"
    /\ closer.pc = "idle"
    /\ closer' = [closer EXCEPT !.pc = "closing"]
    /\ UNCHANGED <<loop, ctor, mu, closed, tokenRenewer, watch, renewers,
                   initialTokenArrived, initialTokenSent, approle, storeFile, rawToken,
                   call, twin, server, watcher, env, okLogins, lastWrite, boot>>

\* Lines 259-270: the owner's Close() gets the lock, runs and returns; the
\* owner may call it again.
CloseRun ==
    /\ Alive /\ closer.pc = "closing"
    /\ Close
    /\ closer' = [pc |-> "idle", returned |-> TRUE]
    /\ UNCHANGED <<loop, ctor, mu, tokenRenewer, initialTokenArrived, initialTokenSent,
                   approle, storeFile, rawToken, call, twin, server, watcher, env, okLogins, lastWrite, boot>>

\* --------------------------------------------------- the watcher goroutine

\* The configured VAULT_CACERT, cleaned (line 106).
caCertFile == "/etc/tls/ca.crt"

\* Event names the watched directory can produce; "" is the zero Event
\* received from the closed Events channel.
EventNames == {"/etc/tls/ca.crt", "/etc/tls/./ca.crt", "/etc/tls/..data",
               "/etc/tls/other.pem", ""}

\* filepath.Clean on the names above.
Clean(name) ==
    CASE name = "/etc/tls/./ca.crt" -> "/etc/tls/ca.crt"
      [] name = "" -> "."
      [] OTHER -> name

\* filepath.Base on the names above.
Base(name) ==
    CASE name \in {"/etc/tls/ca.crt", "/etc/tls/./ca.crt"} -> "ca.crt"
      [] name = "/etc/tls/..data" -> "..data"
      [] name = "/etc/tls/other.pem" -> "other.pem"
      [] OTHER -> "."

\* fsnotify.Op as the set of its bits.
EventOps == {{"Create"}, {"Write", "Chmod"}, {"Remove"}, {}}

\* PassesFilter without the test for Create of line 124.
PassesFilter_WriteOnly(name, op) ==
    /\ Clean(name) = caCertFile \/ Base(name) = "..data"
    /\ "Write" \in op

\* Lines 123-124: the events that make the watcher reload the configuration.
PassesFilter(name, op) ==
    /\ Clean(name) = caCertFile \/ Base(name) = "..data"
    /\ "Write" \in op \/ "Create" \in op

\* WatcherLock reading closed without client.mu.
WatcherLock_NoLock ==
    /\ Alive /\ watcher.pc = "lock"
    /\ watcher' = [pc |-> IF closed THEN "exited" ELSE "select", name |-> "", op |-> {}]
    /\ UNCHANGED <<loop, ctor, mu, closed, tokenRenewer, watch, renewers,
                   initialTokenArrived, initialTokenSent, approle, storeFile, rawToken,
                   call, twin, server, closer, env, okLogins, lastWrite, boot>>

\* Lines 113-118: the watcher takes the lock and looks at closed; the event
\* of the last iteration is gone.
WatcherLock ==
    /\ Alive /\ watcher.pc = "lock" /\ mu = "free"
    /\ watcher' = [pc |-> IF closed THEN "exited" ELSE "select", name |-> "", op |-> {}]
    /\ UNCHANGED <<loop, ctor, mu, closed, tokenRenewer, watch, renewers,
                   initialTokenArrived, initialTokenSent, approle, storeFile, rawToken,
                   call, twin, server, closer, env, okLogins, lastWrite, boot>>

\* Lines 120-124: an event is received from watch.Events and filtered.
WatcherEvent ==
    /\ Alive /\ watcher.pc = "select"
    /\ watch = "open"
    /\ \E name \in EventNames \ {""}, op \in EventOps :
         watcher' = [pc |-> IF PassesFilter(name, op) THEN "reload" ELSE "lock",
                     name |-> name, op |-> op]
    /\ UNCHANGED <<loop, ctor, mu, closed, tokenRenewer, watch, renewers,
                   initialTokenArrived, initialTokenSent, approle, storeFile, rawToken,
                   call, twin, server, closer, env, okLogins, lastWrite, boot>>

\* Lines 120-124 after watch.Close(): the closed Events channel yields the
\* zero Event.
WatcherClosedEvent ==
    /\ Alive /\ watcher.pc = "select"
    /\ watch = "closed"
    /\ watcher' = [watcher EXCEPT !.pc = IF PassesFilter("", {}) THEN "reload" ELSE "lock"]
    /\ UNCHANGED <<loop, ctor, mu, closed, tokenRenewer, watch, renewers,
                   initialTokenArrived, initialTokenSent, approle, storeFile, rawToken,
                   call, twin, server, closer, env, okLogins, lastWrite, boot>>

\* Lines 133-134: an error is received from watch.Errors and logged.
WatcherError ==
    /\ Alive /\ watcher.pc = "select"
    /\ watch = "open"
    /\ watcher' = [watcher EXCEPT !.pc = "lock"]
    /\ UNCHANGED <<loop, ctor, mu, closed, tokenRenewer, watch, renewers,
                   initialTokenArrived, initialTokenSent, approle, storeFile, rawToken,
                   call, twin, server, closer, env, okLogins, lastWrite, boot>>

\* Lines 125-130: config.ReadEnvironment(); its error is only logged.
WatcherReload ==
    /\ Alive /\ watcher.pc = "reload"
    /\ \E ok \in BOOLEAN :
         watcher' = [pc |-> "lock", name |-> "", op |-> {}]
    /\ UNCHANGED <<loop, ctor, mu, closed, tokenRenewer, watch, renewers,
                   initialTokenArrived, initialTokenSent, approle, storeFile, rawToken,
                   call, twin, server, closer, env, okLogins, lastWrite, boot>>

\* ------------------------------------------------------------ specification

Next ==
    \/ LoopExit \/ LoginEnter \/ LoginSend \/ IssueSend \/ DestroySend \/ Backoff
    \/ GateSend \/ NewRenewer \/ Register \/ StartRenew
    \/ RenewCheckerRenewed \/ RenewerDone \/ RenewCheckerDone
    \/ GateReceive \/ GateTimeout \/ TimeoutClose \/ ConfigNoWatch \/ ConfigWatch
    \/ CloseCall \/ CloseRun
    \/ WatcherLock \/ WatcherEvent \/ WatcherClosedEvent \/ WatcherError \/ WatcherReload

Spec == Init /\ [][Next]_vars

\* Spec with the scheduling the code relies on: a request of Login is
\* answered or times out (the HTTP client's timeout), and a goroutine blocked
\* in client.mu.Lock() gets the mutex (sync.Mutex hands it to a starving
\* waiter).
SpecLive ==
    /\ Spec
    /\ WF_vars(LoginSend) /\ WF_vars(IssueSend) /\ WF_vars(DestroySend)
    /\ SF_vars(CloseRun)

\* Renewer.Renew of a renewer that was told to stop returns: it finds stopCh
\* closed at its next look and puts nil on DoneCh.
StoppedRenewerDone ==
    /\ RenewerDone
    /\ \E i \in 1..Len(renewers) :
         renewers[i].stopped /\ renewers[i].phase = "running" /\ renewers'[i].phase = "done"

\* SpecLive with fair scheduling of the background goroutine: each of its
\* steps is taken when it can be, its Lock() calls get the mutex, and a
\* stopped renewer delivers done. A renewer that was not stopped may go on
\* renewing for ever.
SpecFair ==
    /\ SpecLive
    /\ WF_vars(Backoff) /\ WF_vars(GateSend) /\ WF_vars(NewRenewer)
    /\ SF_vars(Register) /\ WF_vars(StartRenew)
    /\ WF_vars(StoppedRenewerDone) /\ WF_vars(RenewCheckerDone)
    /\ SF_vars(LoopExit)

\* ------------------------------------------------ NewApproleWithOptions

\* The approleOptions struct before any option is applied (line 386).
NoOptions ==
    [roleID |-> -1, roleIDPath |-> "", initialSecretID |-> -1,
     initialSecretIDPath |-> "", secretIDStorePath |-> ""]

\* The apply methods of the five option types (lines 347-377).
apply(o, opt) ==
    CASE opt.kind = "ApproleRoleID" -> [o EXCEPT !.roleID = opt.val]
      [] opt.kind = "ApproleRoleIDPath" -> [o EXCEPT !.roleIDPath = opt.val]
      [] opt.kind = "ApproleInitialSecretID" -> [o EXCEPT !.initialSecretID = opt.val]
      [] opt.kind = "ApproleInitialSecretIDPath" -> [o EXCEPT !.initialSecretIDPath = opt.val]
      [] opt.kind = "ApproleSecretIDStorePath" -> [o EXCEPT !.initialSecretIDPath = opt.val]

\* Lines 388-390: the options are applied in the order given.
RECURSIVE applyAll(_, _)
applyAll(o, opts) ==
    IF opts = << >> THEN o ELSE applyAll(apply(o, Head(opts)), Tail(opts))

\* ioutil.ReadFile: fs maps the paths that name a file or a place for one to
\* the content, -2 where nothing can be read.
ReadFile(fs, path) ==
    IF path \in DOMAIN fs /\ fs[path] # -2
    THEN [err |-> FALSE, data |-> fs[path]]
    ELSE [err |-> TRUE, data |-> -1]

\* Lines 400-410: the three paths default to the viper settings.
DefaultPaths(o, viper) ==
    [o EXCEPT !.roleIDPath = IF @ = "" THEN viper.roleIDPath ELSE @,
              !.initialSecretIDPath = IF @ = "" THEN viper.initialSecretIDPath ELSE @,
              !.secretIDStorePath = IF @ = "" THEN viper.secretIDStorePath ELSE @]

\* Lines 414-430: the RoleID; err when the function returns an error here.
ResolveRoleID(o, viper, fs) ==
    LET fromViper == IF o.roleID = -1 THEN viper.roleID ELSE o.roleID
        file == ReadFile(fs, o.roleIDPath)
    IN  IF fromViper # -1 THEN [err |-> FALSE, val |-> fromViper]
        ELSE IF file.err THEN [err |-> TRUE, val |-> -1]
        ELSE [err |-> file.data = -1, val |-> file.data]

\* Lines 434-458: the initial SecretID; err when the function returns an
\* error here.
ResolveSecretID(o, viper, fs) ==
    LET store == ReadFile(fs, o.secretIDStorePath)
        fromStore == IF o.initialSecretID = -1 /\ ~store.err
                     THEN store.data ELSE o.initialSecretID
        fromViper == IF fromStore = -1 THEN viper.initialSecretID ELSE fromStore
        file == ReadFile(fs, o.initialSecretIDPath)
    IN  IF fromViper # -1 THEN [err |-> FALSE, val |-> fromViper]
        ELSE IF file.err THEN [err |-> TRUE, val |-> -1]
        ELSE [err |-> file.data = -1, val |-> file.data]

\* NewApproleWithOptions (lines 385-464); w is the outcome of the store write
\* of SetSecretID, which cannot succeed on the empty path.
NewApproleWithOptions(opts, viper, fs, w) ==
    LET o == DefaultPaths(applyAll(NoOptions, opts), viper)
        role == ResolveRoleID(o, viper, fs)
        secret == ResolveSecretID(o, viper, fs)
        path == o.secretIDStorePath
        a0 == [roleID |-> role.val, secretIDStorePath |-> path, secretID |-> -1,
               token |-> 0, persisted |-> FALSE]
        p == SetSecretID(a0, IF path \in DOMAIN fs THEN fs[path] ELSE -2, secret.val,
                         IF path \in DOMAIN fs THEN w ELSE "fail_open")
    IN  IF role.err \/ secret.err
        THEN [ok |-> FALSE, approle |-> a0, fs |-> fs]
        ELSE [ok |-> TRUE, approle |-> p.approle,
              fs |-> IF path \in DOMAIN fs THEN [fs EXCEPT ![path] = p.storeFile] ELSE fs]

\* The options a caller may pass, the viper settings and the files.
OptionValues ==
    {[kind |-> "ApproleRoleID", val |-> 7],
     [kind |-> "ApproleRoleIDPath", val |-> "opt.path"],
     [kind |-> "ApproleInitialSecretID", val |-> 8],
     [kind |-> "ApproleInitialSecretIDPath", val |-> "opt.path"],
     [kind |-> "ApproleSecretIDStorePath", val |-> "opt.path"]}

OptionLists == UNION {[1..n -> OptionValues] : n \in 0..MaxOpts}

ViperSettings ==
    [roleID : {-1, 1}, roleIDPath : {"", "role.path"},
     initialSecretID : {-1, 2}, initialSecretIDPath : {"", "initial.path"},
     secretIDStorePath : {"", "store.path"}]

FileSystems ==
    {[p \in {"role.path", "initial.path", "store.path", "opt.path"} |->
        CASE p = "role.path" -> r [] p = "initial.path" -> i
          [] p = "store.path" -> s [] OTHER -> x] :
     r \in {-2, -1, 3}, i \in {-2, -1, 4}, s \in {-2, -1, 5}, x \in {-2, 6}}

\* Before the client exists (line 166 runs before line 171) only the
\* NewApproleWithOptions call is followed.
InitApprole ==
    /\ loop = "none"
    /\ ctor = "new_approle"
    /\ mu = "free"
    /\ closed = FALSE
    /\ tokenRenewer = 0
    /\ watch = "nil"
    /\ renewers = << >>
    /\ initialTokenArrived = << >>
    /\ initialTokenSent = FALSE
    /\ approle = [secretID |-> -1, token |-> 0, persisted |-> FALSE]
    /\ storeFile = -2
    /\ rawToken = 0
    /\ call = NewCall(approle, storeFile, 0)
    /\ twin = Cur
    /\ server = [logins |-> 0, issued |-> 0, destroySent |-> {}, destroyed |-> {}]
    /\ closer = [pc |-> "idle", returned |-> FALSE]
    /\ watcher = [pc |-> "none", name |-> "", op |-> {}]
    /\ env = [cacert |-> "", reload |-> ""]
    /\ okLogins = 0
    /\ lastWrite = "none"
    /\ \E opts \in OptionLists, viper \in ViperSettings, fs \in FileSystems :
         boot = [pc |-> "call", opts |-> opts, viper |-> viper, fs |-> fs,
                 result |-> [ok |-> FALSE, approle |-> << >>, fs |-> fs]]

\* The call runs and returns the Approle or an error.
NewApproleCall ==
    /\ boot.pc = "call"
    /\ \E w \in WriteResults :
         boot' = [boot EXCEPT !.pc = "done",
                              !.result = NewApproleWithOptions(boot.opts, boot.viper,
                                                               boot.fs, w)]
    /\ UNCHANGED <<loop, ctor, mu, closed, tokenRenewer, watch, renewers,
                   initialTokenArrived, initialTokenSent, approle, storeFile, rawToken,
                   call, twin, server, closer, watcher, env, okLogins, lastWrite>>

NextApprole == NewApproleCall

SpecApprole == InitApprole /\ [][NextApprole]_vars

\* ------------------------------------------------------------------ claims

\* Some Close() call has returned: the owner's, or the one of line 231.
CloseReturned == closer.returned \/ ctor = "ret_timeout"

\* A Login invocation begins (line 186).
LoginBegins == loop = "lock" /\ loop' = "login"

\* NewClientFromRawClient has returned a client and a nil error (line 235).
ClientReturned == ctor \in {"ret_client", "ready", "ret_watch_err"}

\* C1: once a Close() call has returned, client.closed is true, whether or
\* not a renewer was registered when Close ran.
C1_ClosedAfterClose == CloseReturned => closed

\* C2: once Close() has returned, no Login begins, no renewer is created or
\* started and config.ReadEnvironment is not called any more.
C2_QuietAfterClose ==
    [][CloseReturned =>
         /\ ~LoginBegins
         /\ Len(renewers') = Len(renewers)
         /\ \A i \in 1..Len(renewers) :
              renewers[i].phase = "created" => renewers'[i].phase = "created"
         /\ ~(watcher.pc = "reload" /\ watcher'.pc # "reload")]_vars

\* C3: once the constructor has returned the timeout error, no Login begins.
C3_NoLoginAfterTimeout == [][ctor = "ret_timeout" => ~LoginBegins]_vars

\* C4: NewClientFromRawClient returns a client only after a Login of the
\* background loop has returned a secret and a nil error.
C4_ClientImpliesLogin == ClientReturned => okLogins >= 1

C4_Witness == ctor = "ret_client" /\ okLogins = 1

\* The last Login returned a secret and a nil error.
LoginSucceeded == call.returned /\ ~call.err /\ call.ret # 0

\* C5: a successful Login has sent exactly one secret-id request and exactly
\* one destroy request, and the destroy request names the SecretID Login
\* was entered with (the one of the login request), not the new one.
C5_OneIssueOneDestroyOfOld ==
    LoginSucceeded =>
        /\ call.issueCalls = 1
        /\ call.destroyCalls = 1
        /\ call.destroyArg = call.entrySecret
        /\ call.destroyArg = call.loginArg
        /\ call.destroyArg # call.newSecret
        /\ call.destroyArg \in server.destroySent
        /\ call.newSecret \notin server.destroySent

C5_Witness == LoginSucceeded /\ call.newSecret = 2 /\ call.destroyArg = 1

\* The last Login got a token from the login request and an error from the
\* secret-id request.
IssueFailed == call.returned /\ call.tokenSecret # 0 /\ call.issueResp = "err"

\* C6: when the login request succeeds and the secret-id request fails,
\* Login returns the token secret of the login request with the error, the
\* SecretID, the persisted flag and the store file are as on entry and no
\* destroy request is sent.
C6_IssueFailureKeepsState ==
    IssueFailed =>
        /\ call.ret = call.tokenSecret
        /\ call.ret # 0
        /\ call.err
        /\ approle.secretID = call.entrySecret
        /\ approle.persisted = call.entryPersisted
        /\ storeFile = call.entryFile
        /\ call.destroyCalls = 0

C6_Witness == IssueFailed /\ approle.secretID = 1 /\ loop = "backoff"

\* C7: a failed destroy request leaves what Login returns as it is when the
\* destroy request succeeds: the token secret and a nil error.
C7_DestroyFailureNotReturned ==
    (call.returned /\ call.destroyResp = "err") =>
        (call.ret = call.tokenSecret /\ ~call.err)

\* C8: after a Login whose login request succeeded and whose secret-id or
\* destroy request failed, the loop goes on with the token (gate, renewer)
\* and does not back off to log in again.
C8_RotationFailureUsesToken ==
    (/\ call.returned
     /\ call.tokenSecret # 0
     /\ call.issueResp = "err" \/ call.destroyResp = "err")
    => loop # "backoff"

\* C9: the run of Login with the other outcome of the store write returns
\* the same secret and error, leaves the same SecretID and token in memory
\* and sends the same requests; it differs in the persisted flag and the
\* store file only, and in the flag whenever the write was attempted.
C9_PersistOutcomeOnlyInFlag ==
    /\ [twin EXCEPT !.approle.persisted = approle.persisted,
                    !.storeFile = storeFile] = Cur
    /\ call.newSecret # -1 => twin.approle.persisted # approle.persisted

C9_Witness == LoginSucceeded /\ ~approle.persisted /\ twin.approle.persisted

\* The first value of a list of sources that is not empty, -1 if none is.
RECURSIVE FirstNonEmpty(_)
FirstNonEmpty(srcs) ==
    IF srcs = << >> THEN -1
    ELSE IF Head(srcs) # -1 THEN Head(srcs)
    ELSE FirstNonEmpty(Tail(srcs))

\* The value the caller gave with an option of this kind (the last one, if
\* several), none if no such option was passed.
RECURSIVE Given(_, _, _)
Given(opts, kind, none) ==
    IF opts = << >> THEN none
    ELSE IF opts[Len(opts)].kind = kind THEN opts[Len(opts)].val
    ELSE Given(SubSeq(opts, 1, Len(opts) - 1), kind, none)

\* The path configured for a file: the option's, else the viper setting.
ConfiguredPath(kind, setting) ==
    IF Given(boot.opts, kind, "") # "" THEN Given(boot.opts, kind, "") ELSE setting

\* What a file at a configured path contributes as a source.
FileSource(path) ==
    IF ReadFile(boot.fs, path).err THEN -1 ELSE ReadFile(boot.fs, path).data

\* The RoleID and the initial SecretID the documented order selects.
ExpectedRoleID ==
    FirstNonEmpty(<<Given(boot.opts, "ApproleRoleID", -1),
                    boot.viper.roleID,
                    FileSource(ConfiguredPath("ApproleRoleIDPath", boot.viper.roleIDPath))>>)

ExpectedSecretID ==
    FirstNonEmpty(<<Given(boot.opts, "ApproleInitialSecretID", -1),
                    FileSource(ConfiguredPath("ApproleSecretIDStorePath",
                                              boot.viper.secretIDStorePath)),
                    boot.viper.initialSecretID,
                    FileSource(ConfiguredPath("ApproleInitialSecretIDPath",
                                              boot.viper.initialSecretIDPath))>>)

\* The RoleID and SecretID of the result are the first non-empty sources, and
\* the call fails exactly when one of the two has no non-empty source.
SourceOrderHonoured ==
    boot.pc = "done" =>
        IF ExpectedRoleID = -1 \/ ExpectedSecretID = -1
        THEN ~boot.result.ok
        ELSE /\ boot.result.ok
             /\ boot.result.approle.roleID = ExpectedRoleID
             /\ boot.result.approle.secretID = ExpectedSecretID

\* C10: for every combination of sources NewApproleWithOptions takes the
\* RoleID from option, flag/env, role-ID file and the initial SecretID from
\* option, store file, flag/env, initial-secret file, first non-empty first,
\* and fails when the RoleID or the SecretID has no non-empty source.
C10_SourceOrder == SourceOrderHonoured

\* The same order for the calls that pass no ApproleSecretIDStorePath option.
SourceOrderWithoutStoreOption ==
    Given(boot.opts, "ApproleSecretIDStorePath", "") = "" => SourceOrderHonoured

\* C11: after a Login whose login request and secret-id request succeeded and
\* whose store write succeeded, the SecretID in memory and the store file
\* both hold the newly issued secret, persisted is true, and the secret
\* returned, like the token set on the client, is the one of the login
\* response.
C11_RotationStored ==
    (call.returned /\ call.tokenSecret # 0 /\ call.issueResp = "ok" /\ lastWrite = "ok") =>
        /\ approle.secretID = call.newSecret
        /\ call.newSecret # call.entrySecret
        /\ storeFile = call.newSecret
        /\ approle.persisted
        /\ call.ret = call.tokenSecret
        /\ rawToken = call.tokenSecret
        /\ approle.token = call.tokenSecret

C11_Witness ==
    /\ LoginSucceeded /\ lastWrite = "ok"
    /\ call.entrySecret = 0 /\ call.newSecret = 1 /\ storeFile = 1
    /\ server.destroyed = {0}

\* The event names that are the configured CA file, and the marker of an
\* atomically updated Kubernetes volume.
NamesCAFile(name) == name \in {"/etc/tls/ca.crt", "/etc/tls/./ca.crt"}

NamesDataMarker(name) == name = "/etc/tls/..data"

\* The watcher has taken an event or an error from its channels.
EventTaken == watcher.pc = "select" /\ watcher'.pc # "select"

\* config.ReadEnvironment is called and returns.
ReloadCalled == watcher.pc = "reload" /\ watcher'.pc # "reload"

\* C12: an event is followed by a reload exactly when it names the CA file or
\* has the base name ..data and its operation includes Write or Create; the
\* reload is one call of config.ReadEnvironment, after which the watcher is
\* back at the head of its loop, and nothing but such an event leads to one.
C12_ReloadFilter ==
    [][/\ EventTaken =>
            (watcher'.pc = "reload" <=>
                /\ NamesCAFile(watcher'.name) \/ NamesDataMarker(watcher'.name)
                /\ "Write" \in watcher'.op \/ "Create" \in watcher'.op)
       /\ EventTaken => watcher'.pc \in {"reload", "lock"}
       /\ ReloadCalled => watcher'.pc = "lock"
       /\ watcher'.pc = "reload" => (EventTaken \/ watcher.pc = "reload")]_vars

C12_Witness ==
    /\ watcher.pc = "reload"
    /\ watcher.name = "/etc/tls/..data"
    /\ "Create" \in watcher.op

\* An event for another file of the directory has been dropped.
C12_WitnessDropped ==
    /\ watcher.pc = "lock"
    /\ watcher.name = "/etc/tls/other.pem"
    /\ "Write" \in watcher.op

\* C13: the path passed with the ApproleSecretIDStorePath option is the
\* Approle's secretIDStorePath, the file the stored secret is read from and
\* Persist writes to.
C13_StoreOptionIsStorePath ==
    (/\ boot.pc = "done"
     /\ boot.result.ok
     /\ Given(boot.opts, "ApproleSecretIDStorePath", "") # "")
    => boot.result.approle.secretIDStorePath =
           Given(boot.opts, "ApproleSecretIDStorePath", "")

\* The owner's Close() runs (lines 259-270) after an earlier one returned.
SecondCloseRuns == closer.returned /\ closer.pc = "closing" /\ closer'.pc = "idle"

\* C14: a second Close() leaves the connection as the first one left it:
\* closed, the registered renewer, the renewers' stop signals and the watcher
\* are what they were.
C14_SecondCloseNoOp ==
    [][SecondCloseRuns =>
         /\ closed' = closed
         /\ tokenRenewer' = tokenRenewer
         /\ renewers' = renewers
         /\ watch' = watch]_vars

\* A renewer is registered on the client, or started.
RenewerRegistered == tokenRenewer' # tokenRenewer

RenewerStarted ==
    \E i \in 1..Len(renewers) :
        renewers[i].phase = "created" /\ renewers'[i].phase = "running"

\* C15: once closed is true no renewer is registered or started, and every
\* renewer that is running has been told to stop.
C15_NoRenewerOnceClosed ==
    [][/\ closed => ~RenewerRegistered /\ ~RenewerStarted
       /\ closed' => \A i \in 1..Len(renewers') :
                        renewers'[i].phase = "running" => renewers'[i].stopped]_vars

\* A value is put on the initial-token channel.
TokenSent == Len(initialTokenArrived') > Len(initialTokenArrived)

\* C16: the loop sends on the initial-token channel only on its first
\* successful login and then records the send for good, every successful login
\* after the first finds the send recorded, and the send of lines 203-206
\* always finds room in the channel, whatever the constructor has done.
C16_SendOnceNeverBlocks ==
    [][/\ TokenSent => /\ loop = "gate_send" /\ okLogins = 1
                       /\ ~initialTokenSent /\ initialTokenSent'
                       /\ initialTokenArrived' = <<call.ret>>
       /\ initialTokenSent => initialTokenSent'
       /\ (loop = "gate_send" /\ loop' # "gate_send") => initialTokenSent'
       /\ okLogins' >= 2 => initialTokenSent'
       /\ (loop' = "gate_send" /\ ~initialTokenSent') => Len(initialTokenArrived') = 0]_vars

C16_Witness ==
    /\ okLogins = 2 /\ loop = "new_renewer" /\ initialTokenSent
    /\ ctor = "ret_timeout" /\ Len(initialTokenArrived) = 1

\* The supervisor's states: Login in progress or about to be retried, waiting
\* on the active renewer, stopped.
LoggingIn(pc) == pc \in {"lock", "login", "issue", "destroy", "backoff"}

Renewing(pc) == pc = "renew_check"

Stopped(pc) == pc = "exited"

\* C17: the loop leaves Renewing only for LoggingIn and only when the active
\* renewer's done signal has arrived, a renewed notification keeps it in
\* Renewing and sends no login, it becomes Stopped only with closed true, and
\* a Login that returned an error is followed by the backoff and the next
\* iteration.
C17_SupervisorCycle ==
    [][/\ (Renewing(loop) /\ ~Renewing(loop')) =>
              /\ renewers[Len(renewers)].phase = "done"
              /\ loop' = "lock"
       /\ (Renewing(loop) /\ renewers' # renewers /\ renewers[Len(renewers)].phase = "running"
             /\ renewers'[Len(renewers)].phase = "running") =>
              /\ Renewing(loop')
              /\ server' = server
       /\ (Renewing(loop) /\ renewers[Len(renewers)].phase # "done") => Renewing(loop')
       /\ (~Renewing(loop) /\ Renewing(loop')) => (loop = "start" /\ okLogins >= 1)
       /\ (~Stopped(loop) /\ Stopped(loop')) => (closed /\ loop = "lock")
       /\ Stopped(loop) => Stopped(loop')
       /\ (call'.returned /\ ~call.returned /\ call'.err) => loop' = "backoff"
       /\ loop = "backoff" => loop' \in {"backoff", "lock"}]_vars

C17_Witness ==
    /\ loop = "lock" /\ ~closed /\ okLogins = 1
    /\ renewers # <<>> /\ renewers[Len(renewers)].phase = "finished"

C17_WitnessLoginError == loop = "login" /\ call.entryToken = 0 /\ server.logins = 1 /\ okLogins = 0

\* Login returns a failure to the loop: an error, or no secret.
LoginFails == ~call.returned /\ call'.returned /\ (call'.err \/ call'.ret = 0)

LoginAnsweredNil ==
    /\ loop = "login" /\ call'.loginCalls = call.loginCalls + 1
    /\ ~call'.returned /\ call'.tokenSecret = 0

\* C19: an empty answer of the login endpoint sends the loop to the backoff
\* wait, the goroutine alive, with the SecretID and the client's token as
\* they were when Login was entered.
C19_NilLoginIsRetried ==
    [][LoginAnsweredNil =>
         /\ loop' = "backoff"
         /\ ~call'.panicked
         /\ approle'.secretID = call.entrySecret
         /\ rawToken' = call.entryToken]_vars

\* A request of Approle.Login is about to be made or in progress.
InLoginRequest == loop \in {"login", "issue", "destroy"}

CloseTakesEffect ==
    \/ closer.pc = "closing" /\ closer'.pc = "idle"
    \/ ctor = "timeout" /\ ctor' = "ret_timeout"

\* The stop signals of the renewers.
Stops(rs) == [i \in 1..Len(rs) |-> rs[i].stopped]

\* C21: a Login begins only when the one before it has returned; a Close()
\* runs only when no Login is between its entry and its return, and while a
\* Login is in flight closed, the stop signals and the watcher's closing stay
\* as they are; a Close() that was called returns, unless the process has
\* ended.
C21_LoginAtomicCloseReturns ==
    /\ [][/\ LoginBegins => (call.returned \/ call.loginCalls = 0)
          /\ CloseTakesEffect => (~InLoginRequest /\ call' = call /\ server' = server)
          /\ InLoginRequest => /\ closed' = closed
                               /\ Stops(renewers') = Stops(renewers)
                               /\ (watch' = "closed" <=> watch = "closed")]_vars
    /\ (closer.pc = "closing") ~> (closer.pc = "idle" \/ ~Alive)

\* The owner's Close() has been called and waits for the lock while the
\* destroy request of the second Login is in flight.
C21_Witness ==
    /\ closer.pc = "closing" /\ loop = "destroy" /\ mu = "loop"
    /\ server.logins = 2 /\ ~closed

\* A step that writes closed, tokenRenewer or the Approle's secret state, or
\* that reads closed to decide where a goroutine goes.
TouchesLockedField ==
    \/ closed' # closed
    \/ tokenRenewer' # tokenRenewer
    \/ approle' # approle
    \/ loop = "lock" /\ loop' # "lock"
    \/ watcher.pc = "lock" /\ watcher'.pc # "lock"

\* The step is made by the holder of client.mu: by the loop inside Login, or
\* by a critical section that found the mutex free.
UnderLock == mu = "free" \/ (mu = "loop" /\ InLoginRequest /\ loop' # loop)

\* C22 (as stated): every write of closed, tokenRenewer, watch and the
\* Approle's secret state, and every read of closed, is made by the holder of
\* client.mu.
C22_AllAccessUnderLock ==
    [][(TouchesLockedField \/ watch' # watch) =>
           /\ UnderLock
           /\ mu = "loop" => (closed' = closed /\ tokenRenewer' = tokenRenewer /\ watch' = watch)]_vars

\* C22 (amended): closed, tokenRenewer and the Approle's secret state are read
\* and written only by the holder of client.mu, and Close() touches watch
\* under it; the one write of watch outside the mutex is that of line 139,
\* made once by the constructing thread before the client is returned, when
\* no Close() can run.
C22_AccessUnderLockButWatch ==
    [][/\ TouchesLockedField =>
              /\ UnderLock
              /\ mu = "loop" => (closed' = closed /\ tokenRenewer' = tokenRenewer)
       /\ watch' # watch =>
              \/ mu = "free" /\ CloseTakesEffect /\ watch' = "closed"
              \/ /\ ctor = "ret_client" /\ ctor' = "ready"
                 /\ watch = "nil" /\ watch' \in {"open", "unwatched"}
                 /\ closer.pc = "idle" /\ ~closer.returned]_vars

\* The watcher was stored while the loop held the mutex inside its second
\* Login.
C22_Witness == watch = "open" /\ ctor = "ready" /\ loop = "login" /\ mu = "loop" /\ watcher.pc = "lock" /\ okLogins = 1

\* C23: once Close() has closed the watch, the watcher goroutine's next test
\* of closed finds it true and the goroutine exits: it does not go back to
\* waiting on the closed watch.
C23_WatcherExitsAfterClose ==
    [][(watch = "closed" /\ watcher.pc = "lock" /\ watcher'.pc # "lock") =>
           watcher'.pc = "exited"]_vars

\* NewClientFromConfig returns the client with the trust watcher configured.
ReturnsWatchedClient == ctor = "ret_client" /\ ctor' = "ready" /\ watch' # "nil"

\* C24: NewClientFromConfig returns a client with a watcher only when the
\* watcher was created and the CA file's directory was added to it; a reload
\* that fails leaves the watcher running.
C24_SetupFailureIsFatal ==
    [][/\ ReturnsWatchedClient => watch' = "open"
       /\ ReloadCalled => watcher'.pc = "lock"]_vars

\* Login has returned after replacing the SecretID by a newly issued one.
LoginReplacedSecret == call.returned /\ call.issueResp = "ok"

\* The Approle still holds secret s, in memory or in its store file.
HeldLocally(s) == approle.secretID = s \/ storeFile = s

\* C25: after a Login that replaced the SecretID, the replaced one has been
\* destroyed at the server or is still held by the Approle.
C25_OldDestroyedBeforeDiscarded ==
    LoginReplacedSecret =>
        (call.oldSecretID \in server.destroyed \/ HeldLocally(call.oldSecretID))

\* Login has returned without a secret-id request: its login request failed.
LoginRequestFailed == call.returned /\ call.issueCalls = 0

\* C26: a Login whose login request failed has returned no secret and the
\* error, after one login request and no other request, with the SecretID,
\* the persisted flag, the store file and the tokens as they were on entry.
C26_LoginFailureKeepsState ==
    LoginRequestFailed =>
        /\ call.ret = 0 /\ call.err
        /\ call.loginCalls = 1 /\ call.destroyCalls = 0
        /\ call.newSecret = -1
        /\ approle.secretID = call.entrySecret
        /\ approle.persisted = call.entryPersisted
        /\ storeFile = call.entryFile
        /\ rawToken = call.entryToken
        /\ approle.token = call.entryToken

\* The second Login's login request failed after a rotation by the first.
C26_Witness ==
    /\ LoginRequestFailed /\ call.err
    /\ call.entrySecret = 1 /\ call.entryToken = 1 /\ server.logins = 2

\* NewClientFromConfig has returned its client (line 142).
ConfigReturned == ctor = "ready"

\* C27: a client returned by NewClientFromConfig has a watcher, and a watcher
\* goroutine, exactly when VAULT_CACERT is non-empty and VAULT_CACERT_RELOAD
\* is not "false"; without one, Close() leaves watch nil and no watcher
\* goroutine ever runs.
C27_WatcherIffConfigured ==
    /\ ConfigReturned =>
         /\ watch # "nil" <=> (env.cacert # "" /\ env.reload # "false")
         /\ watcher.pc # "none" <=> (env.cacert # "" /\ env.reload # "false")
    /\ ~ConfigReturned => (watch = "nil" /\ watcher.pc = "none")

\* VAULT_CACERT is set and VAULT_CACERT_RELOAD is "false": Close() has run
\* on the returned client and there is no watcher.
C27_Witness ==
    /\ env = [cacert |-> "/etc/tls/ca.crt", reload |-> "false"]
    /\ ConfigReturned /\ closer.returned /\ closed /\ watch = "nil"

\* VAULT_CACERT is set and VAULT_CACERT_RELOAD unset: the watcher runs.
C27_WitnessWatching ==
    /\ env = [cacert |-> "/etc/tls/ca.crt", reload |-> ""]
    /\ ConfigReturned /\ watch = "open" /\ watcher.pc = "select"

\* The renewers whose Renew() is running.
Running == {i \in 1..Len(renewers) : renewers[i].phase = "running"}

\* C28: at most one renewer is running, and every renewer but the newest has
\* had its done signal received by the loop; a renewer is created only then.
C28_OneRenewerRunning ==
    /\ Cardinality(Running) <= 1
    /\ \A i \in 1..Len(renewers) : i < Len(renewers) => renewers[i].phase = "finished"
    /\ loop \in {"login", "issue", "destroy", "gate_send", "new_renewer"} =>
           \A i \in 1..Len(renewers) : renewers[i].phase = "finished"

\* The second renewer runs after the first one's done signal was received.
C28_Witness ==
    /\ Len(renewers) = 2
    /\ renewers[1].phase = "finished" /\ renewers[2].phase = "running"

\* The in-memory SecretID is replaced.
SecretChanges == approle'.secretID # approle.secretID

\* C29: persisted implies that the store file holds the in-memory SecretID;
\* when the SecretID changes persisted becomes true exactly if the write of
\* the new value succeeded, and persisted changes at no other time.
C29_PersistedMeansStored ==
    [][/\ approle.persisted => storeFile = approle.secretID
       /\ approle'.persisted => storeFile' = approle'.secretID
       /\ SecretChanges => (approle'.persisted <=> lastWrite' = "ok")
       /\ approle'.persisted # approle.persisted => SecretChanges
       /\ storeFile' # storeFile => SecretChanges]_vars

\* After a first rotation that was stored, the write of the second failed:
\* persisted is false and the store file is not the current SecretID.
C29_Witness ==
    /\ approle.secretID = 2 /\ ~approle.persisted /\ storeFile # 2
    /\ call.entryPersisted /\ call.entryFile = 1

\* The login request of a Login is sent.
LoginRequestSent == loop = "login" /\ call'.loginCalls = call.loginCalls + 1

\* The SecretID of the most recent successful secret-id request, or the
\* initial one.
LatestSecret == server.issued

\* C30: the current SecretID is never one for which a destroy request was
\* sent, and every login request carries the initial SecretID or the one of
\* the most recent successful secret-id request, never one for which a
\* destroy request was sent before.
C30_DestroyedNeverReused ==
    [][/\ approle.secretID \notin server.destroySent
       /\ approle'.secretID \notin server'.destroySent
       /\ LoginRequestSent =>
              /\ call'.loginArg = LatestSecret
              /\ call'.loginArg = approle.secretID
              /\ call'.loginArg \notin server.destroySent]_vars

\* The second login request has been sent with SecretID 1 after the destroy
\* request for the initial one.
C30_Witness ==
    /\ call.loginCalls = 1 /\ call.loginArg = 1
    /\ server.destroySent = {0} /\ server.logins = 2

\* C31: once a Close() has found a renewer registered and set closed, the
\* background goroutine reaches its end (line 223), unless the process has
\* ended before.
C31_LoopEndsAfterClose == closed ~> (loop = "exited" \/ ~Alive)

====
